---- MODULE Spec2Model ----
(***************************************************************************)
(* Model of go/arrow/flight/flightsql/server.go: the FlightSQL router      *)
(* (flightSqlServer) that maps the Flight RPC verbs onto the methods of a  *)
(* flightsql.Server, the BaseServer defaults, the sql info registry and    *)
(* the DoGet loop that copies a handler's chunk channel to the stream.     *)
(***************************************************************************)
EXTENDS Integers, Sequences, FiniteSets, TLC

\* ---------------------------------------------------------------- bounds
\* chunks one producer puts on the channel of one DoGet call
MaxChunks == 3
\* sql info ids are 1..MaxInfoId
MaxInfoId == 2
\* length of the id list of a CommandGetSqlInfo
MaxInfoLen == 2
\* flight descriptors a chunk can carry are 1..MaxDesc (0 is nil)
MaxDesc == 1
\* WriteMetadata calls one DoPutPreparedStatementQuery handler makes
MaxMetadataWrites == 2
\* record counts an update handler returns are 0..MaxRecordCount
MaxRecordCount == 1

\* ---------------------------------------------------------------- errors
\* an error value; the nil error is OK
Status(code, msg) == [code |-> code, msg |-> msg]
OK == Status("OK", "")
\* the error a method of an implementing Server returns when it fails
HandlerError == Status("HandlerError", "handler failed")
\* the error a producer puts in StreamChunk.Err
ChunkError == Status("ChunkError", "producer failed")
\* the error stream.Send / the record writer returns when the transport fails
SendError == Status("Unavailable", "transport is closing")
\* a nil pointer dereference: the goroutine of the call panics
Panic == Status("Panic", "invalid memory address or nil pointer dereference")

\* ------------------------------------------------- command envelope codec
\* the protobuf messages of the FlightSQL protocol that are commands
Commands ==
    { "CommandStatementQuery", "CommandPreparedStatementQuery",
      "CommandStatementUpdate", "CommandPreparedStatementUpdate",
      "CommandGetCatalogs", "CommandGetDbSchemas", "CommandGetTables",
      "CommandGetTableTypes", "CommandGetPrimaryKeys",
      "CommandGetExportedKeys", "CommandGetImportedKeys",
      "CommandGetCrossReference", "CommandGetXdbcTypeInfo",
      "CommandGetSqlInfo", "TicketStatementQuery",
      "ActionCreatePreparedStatementRequest",
      "ActionClosePreparedStatementRequest" }

\* messages the protobuf registry resolves: the commands and the messages
\* of the protocol that are replies
RegisteredMessages ==
    Commands \cup {"DoPutUpdateResult", "ActionCreatePreparedStatementResult"}

\* a type URL no registered message has
UnknownTypeUrl == "type.googleapis.com/unknown.Message"

TypeUrl(name) == "type.googleapis.com/arrow.flight.protocol.sql." \o name

InfoIds == 1..MaxInfoId

RECURSIVE SeqsUpTo(_, _)
SeqsUpTo(S, n) ==
    IF n = 0 THEN {<<>>}
    ELSE LET shorter == SeqsUpTo(S, n - 1)
         IN  shorter \cup {Append(s, x) : s \in {t \in shorter : Len(t) = n - 1}, x \in S}

\* The bytes of a FlightDescriptor.Cmd, a Ticket.Ticket or an Action.Body:
\* wellFormed says whether they parse as an Any, typeUrl and valueOk are the
\* Any's type URL and whether its value parses as the message of that URL,
\* info is the id list of the message when it is a CommandGetSqlInfo.
Envelope(wf, url, vok, info) ==
    [wellFormed |-> wf, typeUrl |-> url, valueOk |-> vok, info |-> info]

Garbage == Envelope(FALSE, "", FALSE, <<>>)

Envelopes ==
    {Garbage}
    \cup {Envelope(TRUE, UnknownTypeUrl, TRUE, <<>>)}
    \cup {Envelope(TRUE, TypeUrl(n), vok, <<>>) :
             n \in RegisteredMessages \ {"CommandGetSqlInfo"}, vok \in BOOLEAN}
    \cup {Envelope(TRUE, TypeUrl("CommandGetSqlInfo"), FALSE, <<>>)}
    \cup {Envelope(TRUE, TypeUrl("CommandGetSqlInfo"), TRUE, ids) :
             ids \in SeqsUpTo(InfoIds, MaxInfoLen)}

NoMessage == [type |-> "", info |-> <<>>]

\* proto.Unmarshal(bytes, &anycmd)
ProtoUnmarshal(bytes) ==
    IF bytes.wellFormed
    THEN [ok |-> TRUE, typeUrl |-> bytes.typeUrl, valueOk |-> bytes.valueOk,
          info |-> bytes.info]
    ELSE [ok |-> FALSE, typeUrl |-> "", valueOk |-> FALSE, info |-> <<>>]

\* anycmd.UnmarshalNew(): resolve the type URL in the registry, then parse
UnmarshalNew(any) ==
    IF \E n \in RegisteredMessages : TypeUrl(n) = any.typeUrl /\ any.valueOk
    THEN [ok |-> TRUE,
          msg |-> [type |-> CHOOSE n \in RegisteredMessages : TypeUrl(n) = any.typeUrl,
                   info |-> any.info]]
    ELSE [ok |-> FALSE, msg |-> NoMessage]

\* anycmd.UnmarshalTo(&request): the URL must name the type of request
UnmarshalTo(any, name) ==
    IF any.typeUrl = TypeUrl(name) /\ any.valueOk
    THEN [ok |-> TRUE, msg |-> [type |-> name, info |-> any.info]]
    ELSE [ok |-> FALSE, msg |-> NoMessage]

\* ------------------------------------------------------------ BaseServer
\* the methods of BaseServer that return codes.Unimplemented, with the
\* message each one returns
BaseServerMessages ==
    [ GetFlightInfoStatement |-> "GetFlightInfoStatement not implemented",
      DoGetStatement |-> "DoGetStatement not implemented",
      GetFlightInfoPreparedStatement |-> "GetFlightInfoPreparedStatement not implemented",
      DoGetPreparedStatement |-> "DoGetPreparedStatement not implemented",
      GetFlightInfoCatalogs |-> "GetFlightInfoCatalogs not implemented",
      DoGetCatalogs |-> "DoGetCatalogs not implemented",
      GetFlightInfoXdbcTypeInfo |-> "GetFlightInfoXdbcTypeInfo not implemented",
      DoGetXdbcTypeInfo |-> "DoGetXdbcTypeInfo not implemented",
      GetFlightInfoSchemas |-> "GetFlightInfoSchemas not implemented",
      DoGetDBSchemas |-> "DoGetDBSchemas not implemented",
      GetFlightInfoTables |-> "GetFlightInfoTables not implemented",
      DoGetTables |-> "DoGetTables not implemented",
      GetFlightInfoTableTypes |-> "GetFlightInfoTableTypes not implemented",
      DoGetTableTypes |-> "DoGetTableTypes not implemented",
      GetFlightInfoPrimaryKeys |-> "GetFlightInfoPrimaryKeys not implemented",
      DoGetPrimaryKeys |-> "DoGetPrimaryKeys not implemented",
      GetFlightInfoExportedKeys |-> "GetFlightInfoExportedKeys not implemented",
      DoGetExportedKeys |-> "DoGetExportedKeys not implemented",
      GetFlightInfoImportedKeys |-> "GetFlightInfoImportedKeys not implemented",
      DoGetImportedKeys |-> "DoGetImportedKeys not implemented",
      GetFlightInfoCrossReference |-> "GetFlightInfoCrossReference not implemented",
      DoGetCrossReference |-> "DoGetCrossReference not implemented",
      CreatePreparedStatement |-> "CreatePreparedStatement not implemented",
      ClosePreparedStatement |-> "ClosePreparedStatement not implemented",
      DoPutCommandStatementUpdate |-> "DoPutCommandStatementUpdate not implemented",
      DoPutPreparedStatementQuery |-> "DoPutPreparedStatementQuery not implemented",
      DoPutPreparedStatementUpdate |-> "DoPutPreparedStatementUpdate not implemented" ]

\* mutation: a method copied from its neighbour keeps the neighbour's message
BaseServerUnimplemented_Copied(m) ==
    Status("Unimplemented",
           IF m = "GetFlightInfoCatalogs" THEN BaseServerMessages["GetFlightInfoSchemas"]
           ELSE BaseServerMessages[m])

\* the error method m of BaseServer returns
BaseServerUnimplemented(m) == Status("Unimplemented", BaseServerMessages[m])

\* one call of a method of the Server and the error it returned
\* a nil *arrow.Schema
NoSchema == 0
\* the zero ActionCreatePreparedStatementResult of a method that failed
NoOutput == [handle |-> 0, datasetSchema |-> NoSchema, parameterSchema |-> NoSchema]
\* what a method returns beside its error, and what it did with the writer it
\* was handed: the record count of an update, the output of
\* CreatePreparedStatement, the WriteMetadata calls of
\* DoPutPreparedStatementQuery; zero for the methods without them
NoReturn == [recordCount |-> 0, output |-> NoOutput, written |-> <<>>]
Returned(m, e, out) == [method |-> m, err |-> e, out |-> out]
Call(m, e) == Returned(m, e, NoReturn)

\* ------------------------------------------------------------------ state
VARIABLES
    sqlInfoToResult,  \* BaseServer.sqlInfoToResult
    impl,             \* the Server behind the router: "base" is BaseServer alone,
                      \* "custom" an implementation that overrides every method
    pc,               \* where the current call is: idle, recv, write, done
    verb,             \* the operation the current call runs
    request,          \* its argument
    invoked,          \* the Server methods it has called, in call order
    ret,              \* the error it returned (OK for nil)
    result,           \* the FlightInfo it returned
    wire,             \* what it has sent on its stream, in send order
    err,              \* DoGet: the named result err
    wr,               \* DoGet: the record writer
    chunk,            \* DoGet: the loop variable chunk
    cc,               \* DoGet: the channel the handler returned
    sent,             \* DoGet: the chunks whose send on cc has completed
    released,         \* DoGet: Release calls the router made, per record batch
    cancelled,        \* the context of the call is cancelled
    goroutines        \* concurrent calls on BaseServer: where each goroutine is
                      \* in RegisterSqlInfo, GetFlightInfoSqlInfo or DoGetSqlInfo

callVars   == <<pc, verb, request, invoked, ret, result, wire>>
streamVars == <<err, wr, chunk, cc, sent, released, cancelled>>
vars       == <<sqlInfoToResult, impl, callVars, streamVars, goroutines>>

\* ------------------------------------------------------- sql info registry
ValidShapes == {"string", "bool", "int64", "int32", "stringList", "int32ListMap"}
\* a value of a type RegisterSqlInfo does not accept
InvalidShapes == {"float64"}
SqlInfoValues == [shape : ValidShapes \cup InvalidShapes]

\* a Go map: nil, or allocated with some entries
NilMap   == [isNil |-> TRUE,  entries |-> <<>>]
EmptyMap == [isNil |-> FALSE, entries |-> <<>>]
MapLen(m)    == Cardinality(DOMAIN m.entries)
MapHas(m, k) == k \in DOMAIN m.entries
\* mutation: an entry that exists is kept, only a new key is stored
MapPut_KeepsFirst(m, k, v) ==
    [isNil |-> FALSE,
     entries |-> [i \in DOMAIN m.entries \cup {k} |->
                     IF i \in DOMAIN m.entries THEN m.entries[i] ELSE v]]

MapPut(m, k, v) ==
    [isNil |-> FALSE,
     entries |-> [i \in DOMAIN m.entries \cup {k} |-> IF i = k THEN v ELSE m.entries[i]]]

\* ----------------------------------------------------- values of one call
NoDesc == 0
NoData == [id |-> 0, names |-> <<>>, codes |-> <<>>]
\* flight.StreamChunk
Chunk(data, desc, meta, e) == [data |-> data, desc |-> desc, meta |-> meta, err |-> e]
NoChunk == Chunk(NoData, NoDesc, 0, OK)
\* the k-th record batch a producer sends
Batch(k) == [id |-> k, names |-> <<>>, codes |-> <<>>]

\* the argument of a call
Request(type, cmd, first, id, value) ==
    [type |-> type, cmd |-> cmd, first |-> first, id |-> id, value |-> value]
NoRequest == Request("", Garbage, "", 0, [shape |-> ""])

\* the nil *flight.FlightInfo
NoInfo == [endpoint |-> <<>>, flightDescriptor |-> Garbage, totalRecords |-> 0,
           totalBytes |-> 0, schema |-> ""]

NoWriter  == [constructed |-> 0, closed |-> 0, fd |-> NoDesc]
NoChannel == [open |-> FALSE, closed |-> FALSE, offer |-> NoChunk, offered |-> FALSE,
              producer |-> "none", pending |-> <<>>]

NoReleases == [k \in 1..MaxChunks |-> 0]

\* the goroutines of two calls that run at the same time
Goroutines == {1, 2}
\* a goroutine that runs no call: op is the method it runs, at its position
\* (idle, call, access, done, fatal), id and value the arguments of
\* RegisterSqlInfo, ids the id list of a GetSqlInfo command and i the position
\* of the loop of DoGetSqlInfo in it, access the map access it is in the
\* middle of (none, read, write), raced whether that access ran together with
\* a conflicting one, ret what the method returned
NoGoroutine ==
    [op |-> "", at |-> "idle", id |-> 0, value |-> [shape |-> ""], ids |-> <<>>,
     i |-> 0, access |-> "none", raced |-> FALSE, ret |-> OK]

Init ==
    /\ sqlInfoToResult \in {NilMap, EmptyMap}
    /\ impl \in {"base", "custom"}
    /\ pc = "idle"
    /\ verb = ""
    /\ request = NoRequest
    /\ invoked = <<>>
    /\ ret = OK
    /\ result = NoInfo
    /\ wire = <<>>
    /\ err = OK
    /\ wr = NoWriter
    /\ chunk = NoChunk
    /\ cc = NoChannel
    /\ sent = <<>>
    /\ released = NoReleases
    /\ cancelled = FALSE
    /\ goroutines = [g \in Goroutines |-> NoGoroutine]

\* a call that runs to its return in one step
Complete(v, req, inv, e, info, w) ==
    /\ pc' = "done"
    /\ verb' = v
    /\ request' = req
    /\ invoked' = inv
    /\ ret' = e
    /\ result' = info
    /\ wire' = w
    /\ UNCHANGED streamVars

\* the caller has the outcome of the call; the next call can start
Return ==
    /\ UNCHANGED goroutines
    /\ pc = "done"
    /\ pc' = "idle"
    /\ verb' = ""
    /\ request' = NoRequest
    /\ invoked' = <<>>
    /\ ret' = OK
    /\ result' = NoInfo
    /\ wire' = <<>>
    /\ err' = OK
    /\ wr' = NoWriter
    /\ chunk' = NoChunk
    /\ cc' = NoChannel
    /\ sent' = <<>>
    /\ released' = NoReleases
    /\ cancelled' = FALSE
    /\ UNCHANGED <<sqlInfoToResult, impl>>

\* mutation: the type switch has no default case
RegisterSqlInfoAccepts_Any(value) == TRUE

\* the type switch of RegisterSqlInfo: the types of the case that assigns
RegisterSqlInfoAccepts(value) == value.shape \in ValidShapes

\* BaseServer.RegisterSqlInfo: an assignment to an entry of a nil map panics.
\* The implementation that overrides every method serves no registered info.
RegisterSqlInfo ==
    /\ UNCHANGED goroutines
    /\ pc = "idle"
    /\ impl = "base"
    /\ \E id \in InfoIds, value \in SqlInfoValues :
         LET req == Request("", Garbage, "", id, value) IN
         IF RegisterSqlInfoAccepts(value)
         THEN IF sqlInfoToResult.isNil
              THEN /\ Complete("RegisterSqlInfo", req, <<>>, Panic, NoInfo, <<>>)
                   /\ UNCHANGED sqlInfoToResult
              ELSE /\ Complete("RegisterSqlInfo", req, <<>>, OK, NoInfo, <<>>)
                   /\ sqlInfoToResult' = MapPut(sqlInfoToResult, id, value)
         ELSE /\ Complete("RegisterSqlInfo", req, <<>>,
                          Status("Error", "invalid sql info type '" \o value.shape
                                          \o "' registered for id: " \o ToString(id)),
                          NoInfo, <<>>)
              /\ UNCHANGED sqlInfoToResult
    /\ UNCHANGED impl

\* the FlightInfo GetFlightInfoSqlInfo builds for a descriptor
SqlInfoFlightInfo(desc) ==
    [endpoint |-> <<[ticket |-> desc]>>, flightDescriptor |-> desc,
     totalRecords |-> -1, totalBytes |-> -1, schema |-> "SqlInfo"]

\* mutation: the test for an empty registry is missing
GetFlightInfoSqlInfo_NoCheck(desc) == [err |-> OK, info |-> SqlInfoFlightInfo(desc)]

\* mutation: the ticket is a GetSqlInfo command built anew, without the ids
GetFlightInfoSqlInfo_NewTicket(desc) ==
    IF MapLen(sqlInfoToResult) = 0
    THEN [err |-> Status("NotFound", "no sql information available"), info |-> NoInfo]
    ELSE [err |-> OK,
          info |-> [SqlInfoFlightInfo(desc) EXCEPT
                        !.endpoint = <<[ticket |-> [desc EXCEPT !.info = <<>>]]>>]]

\* BaseServer.GetFlightInfoSqlInfo
GetFlightInfoSqlInfo(desc) ==
    IF MapLen(sqlInfoToResult) = 0
    THEN [err |-> Status("NotFound", "no sql information available"), info |-> NoInfo]
    ELSE [err |-> OK, info |-> SqlInfoFlightInfo(desc)]

\* the methods of the Server behind the router that return a FlightInfo
GetFlightInfoMethod(m, desc) ==
    IF impl = "base" /\ m = "GetFlightInfoSqlInfo" THEN {GetFlightInfoSqlInfo(desc)}
    ELSE IF impl = "base"
    THEN {[err |-> BaseServerUnimplemented(m), info |-> NoInfo]}
    ELSE {[err |-> OK,
           info |-> [endpoint |-> <<>>, flightDescriptor |-> desc, totalRecords |-> 0,
                     totalBytes |-> 0, schema |-> "handler"]],
          [err |-> HandlerError, info |-> NoInfo]}

NoMethod == ""

\* mutation: the case of the imported keys calls the method of the exported keys
GetFlightInfoSwitch_WrongCase(cmd) ==
    CASE cmd = "CommandStatementQuery"         -> "GetFlightInfoStatement"
      [] cmd = "CommandPreparedStatementQuery" -> "GetFlightInfoPreparedStatement"
      [] cmd = "CommandGetCatalogs"            -> "GetFlightInfoCatalogs"
      [] cmd = "CommandGetDbSchemas"           -> "GetFlightInfoSchemas"
      [] cmd = "CommandGetTables"              -> "GetFlightInfoTables"
      [] cmd = "CommandGetTableTypes"          -> "GetFlightInfoTableTypes"
      [] cmd = "CommandGetXdbcTypeInfo"        -> "GetFlightInfoXdbcTypeInfo"
      [] cmd = "CommandGetSqlInfo"             -> "GetFlightInfoSqlInfo"
      [] cmd = "CommandGetPrimaryKeys"         -> "GetFlightInfoPrimaryKeys"
      [] cmd = "CommandGetExportedKeys"        -> "GetFlightInfoExportedKeys"
      [] cmd = "CommandGetImportedKeys"        -> "GetFlightInfoExportedKeys"
      [] cmd = "CommandGetCrossReference"      -> "GetFlightInfoCrossReference"
      [] OTHER                                 -> NoMethod

\* the type switch of flightSqlServer.GetFlightInfo
GetFlightInfoSwitch(cmd) ==
    CASE cmd = "CommandStatementQuery"         -> "GetFlightInfoStatement"
      [] cmd = "CommandPreparedStatementQuery" -> "GetFlightInfoPreparedStatement"
      [] cmd = "CommandGetCatalogs"            -> "GetFlightInfoCatalogs"
      [] cmd = "CommandGetDbSchemas"           -> "GetFlightInfoSchemas"
      [] cmd = "CommandGetTables"              -> "GetFlightInfoTables"
      [] cmd = "CommandGetTableTypes"          -> "GetFlightInfoTableTypes"
      [] cmd = "CommandGetXdbcTypeInfo"        -> "GetFlightInfoXdbcTypeInfo"
      [] cmd = "CommandGetSqlInfo"             -> "GetFlightInfoSqlInfo"
      [] cmd = "CommandGetPrimaryKeys"         -> "GetFlightInfoPrimaryKeys"
      [] cmd = "CommandGetExportedKeys"        -> "GetFlightInfoExportedKeys"
      [] cmd = "CommandGetImportedKeys"        -> "GetFlightInfoImportedKeys"
      [] cmd = "CommandGetCrossReference"      -> "GetFlightInfoCrossReference"
      [] OTHER                                 -> NoMethod

\* flightSqlServer.GetFlightInfo
GetFlightInfo ==
    /\ UNCHANGED goroutines
    /\ pc = "idle"
    /\ \E bytes \in Envelopes :
         LET req    == Request("", bytes, "", 0, [shape |-> ""])
             anycmd == ProtoUnmarshal(bytes)
             cmd    == UnmarshalNew(anycmd)
             m      == GetFlightInfoSwitch(cmd.msg.type)
         IN  IF ~anycmd.ok
             THEN Complete("GetFlightInfo", req, <<>>,
                           Status("InvalidArgument", "unable to parse command: "),
                           NoInfo, <<>>)
             ELSE IF ~cmd.ok
             THEN Complete("GetFlightInfo", req, <<>>,
                           Status("InvalidArgument",
                                  "could not unmarshal Any to a command type: "),
                           NoInfo, <<>>)
             ELSE IF m = NoMethod
             THEN Complete("GetFlightInfo", req, <<>>,
                           Status("InvalidArgument", "requested command is invalid"),
                           NoInfo, <<>>)
             ELSE \E r \in GetFlightInfoMethod(m, bytes) :
                      Complete("GetFlightInfo", req, <<Call(m, r.err)>>, r.err, r.info, <<>>)
    /\ UNCHANGED <<sqlInfoToResult, impl>>

\* ------------------------------------------------------------------ DoGet
\* the type code sqlInfoResultBuilder.Append gives a value in the dense union
SqlInfoTypeCode(shape) ==
    CASE shape = "string"       -> 0
      [] shape = "bool"         -> 1
      [] shape = "int64"        -> 2
      [] shape = "int32"        -> 3
      [] shape = "stringList"   -> 4
      [] shape = "int32ListMap" -> 5

\* flight.StreamChunksFromReader over the records: it sends each record in a
\* chunk of its own, then closes the channel
ReaderChannel(records) ==
    [open |-> TRUE, closed |-> FALSE, offer |-> NoChunk, offered |-> FALSE,
     producer |-> "reader", pending |-> records]

\* the channel of an implementing Server: its producer sends what it likes
CustomChannel ==
    [open |-> TRUE, closed |-> FALSE, offer |-> NoChunk, offered |-> FALSE,
     producer |-> "custom", pending |-> <<>>]

\* the positions of the id list whose id has no entry in the registry
SqlInfoMissing(ids) == {i \in 1..Len(ids) : ~MapHas(sqlInfoToResult, ids[i])}

\* mutation: the loop goes through the whole list and keeps the last miss
SqlInfoFirstMissing_Last(ids) ==
    CHOOSE i \in SqlInfoMissing(ids) : \A j \in SqlInfoMissing(ids) : i >= j

\* the position at which the loop of DoGetSqlInfo returns NotFound
SqlInfoFirstMissing(ids) ==
    CHOOSE i \in SqlInfoMissing(ids) : \A j \in SqlInfoMissing(ids) : i <= j

\* mutation: the loop starts at the second id
SqlInfoRecord_SkipsFirst(ids) ==
    LET rest == IF ids = <<>> THEN <<>> ELSE Tail(ids)
    IN  [id |-> 1, names |-> rest,
         codes |-> [i \in 1..Len(rest) |->
                       SqlInfoTypeCode(sqlInfoToResult.entries[rest[i]].shape)]]

\* the record the loop of DoGetSqlInfo builds: one row per requested id, the
\* id in column 0 and the registered value in the dense union of column 1
SqlInfoRecord(ids) ==
    [id |-> 1, names |-> ids,
     codes |-> [i \in 1..Len(ids) |->
                   SqlInfoTypeCode(sqlInfoToResult.entries[ids[i]].shape)]]

\* BaseServer.DoGetSqlInfo
DoGetSqlInfo(cmd) ==
    LET ids == cmd.info
    IN  IF SqlInfoMissing(ids) # {}
        THEN [err |-> Status("NotFound",
                             "no information for sql info number "
                                 \o ToString(ids[SqlInfoFirstMissing(ids)])),
              cc |-> NoChannel]
        ELSE [err |-> OK, cc |-> ReaderChannel(<<SqlInfoRecord(ids)>>)]

\* the methods of the Server behind the router that return a chunk channel
DoGetMethod(m, cmd) ==
    IF impl = "base" /\ m = "DoGetSqlInfo" THEN {DoGetSqlInfo(cmd)}
    ELSE IF impl = "base"
    THEN {[err |-> BaseServerUnimplemented(m), cc |-> NoChannel]}
    ELSE {[err |-> OK, cc |-> CustomChannel], [err |-> HandlerError, cc |-> NoChannel]}

\* mutation: the switch of DoGet takes the command of GetFlightInfo as well
DoGetSwitch_StatementQuery(cmd) ==
    CASE cmd = "TicketStatementQuery"          -> "DoGetStatement"
      [] cmd = "CommandStatementQuery"         -> "DoGetStatement"
      [] cmd = "CommandPreparedStatementQuery" -> "DoGetPreparedStatement"
      [] cmd = "CommandGetCatalogs"            -> "DoGetCatalogs"
      [] cmd = "CommandGetDbSchemas"           -> "DoGetDBSchemas"
      [] cmd = "CommandGetTables"              -> "DoGetTables"
      [] cmd = "CommandGetTableTypes"          -> "DoGetTableTypes"
      [] cmd = "CommandGetXdbcTypeInfo"        -> "DoGetXdbcTypeInfo"
      [] cmd = "CommandGetSqlInfo"             -> "DoGetSqlInfo"
      [] cmd = "CommandGetPrimaryKeys"         -> "DoGetPrimaryKeys"
      [] cmd = "CommandGetExportedKeys"        -> "DoGetExportedKeys"
      [] cmd = "CommandGetImportedKeys"        -> "DoGetImportedKeys"
      [] cmd = "CommandGetCrossReference"      -> "DoGetCrossReference"
      [] OTHER                                 -> NoMethod

\* the type switch of flightSqlServer.DoGet
DoGetSwitch(cmd) ==
    CASE cmd = "TicketStatementQuery"          -> "DoGetStatement"
      [] cmd = "CommandPreparedStatementQuery" -> "DoGetPreparedStatement"
      [] cmd = "CommandGetCatalogs"            -> "DoGetCatalogs"
      [] cmd = "CommandGetDbSchemas"           -> "DoGetDBSchemas"
      [] cmd = "CommandGetTables"              -> "DoGetTables"
      [] cmd = "CommandGetTableTypes"          -> "DoGetTableTypes"
      [] cmd = "CommandGetXdbcTypeInfo"        -> "DoGetXdbcTypeInfo"
      [] cmd = "CommandGetSqlInfo"             -> "DoGetSqlInfo"
      [] cmd = "CommandGetPrimaryKeys"         -> "DoGetPrimaryKeys"
      [] cmd = "CommandGetExportedKeys"        -> "DoGetExportedKeys"
      [] cmd = "CommandGetImportedKeys"        -> "DoGetImportedKeys"
      [] cmd = "CommandGetCrossReference"      -> "DoGetCrossReference"
      [] OTHER                                 -> NoMethod

\* mutation: the error of the method is not looked at
HandlerFailed_Ignored(e) == FALSE

\* "if err != nil" after the type switch of DoGet
HandlerFailed(e) == e # OK

\* flightSqlServer.DoGet up to the loop over the channel: decode the ticket,
\* call the method, return its error or construct the record writer
DoGet ==
    /\ UNCHANGED goroutines
    /\ pc = "idle"
    /\ \E bytes \in Envelopes :
         LET req    == Request("", bytes, "", 0, [shape |-> ""])
             anycmd == ProtoUnmarshal(bytes)
             cmd    == UnmarshalNew(anycmd)
             m      == DoGetSwitch(cmd.msg.type)
         IN  IF ~anycmd.ok
             THEN Complete("DoGet", req, <<>>,
                           Status("InvalidArgument", "unable to parse ticket: "),
                           NoInfo, <<>>)
             ELSE IF ~cmd.ok
             THEN Complete("DoGet", req, <<>>,
                           Status("InvalidArgument", "unable to unmarshal proto.Any: "),
                           NoInfo, <<>>)
             ELSE IF m = NoMethod
             THEN Complete("DoGet", req, <<>>,
                           Status("InvalidArgument", "requested command is invalid"),
                           NoInfo, <<>>)
             ELSE \E r \in DoGetMethod(m, cmd.msg) :
                      IF HandlerFailed(r.err)
                      THEN Complete("DoGet", req, <<Call(m, r.err)>>, r.err, NoInfo, <<>>)
                      ELSE /\ pc' = "recv"
                           /\ verb' = "DoGet"
                           /\ request' = req
                           /\ invoked' = <<Call(m, r.err)>>
                           /\ wr' = [constructed |-> 1, closed |-> 0, fd |-> NoDesc]
                           /\ cc' = r.cc
                           /\ UNCHANGED <<ret, result, wire, err, chunk, sent,
                                          released, cancelled>>
    /\ UNCHANGED <<sqlInfoToResult, impl>>

\* the chunks the producer of an implementing Server can send as its k-th:
\* a record batch with or without a descriptor and with app metadata of its
\* own, or an error
CustomChunks(k) ==
    {Chunk(Batch(k), d, k, OK) : d \in 0..MaxDesc}
    \cup {Chunk(NoData, NoDesc, 0, ChunkError)}

\* the producer reaches a send on the channel and blocks in it
ProducerSend ==
    /\ UNCHANGED goroutines
    /\ pc \in {"recv", "write"}
    /\ cc.open /\ ~cc.closed /\ ~cc.offered
    /\ \/ /\ cc.producer = "custom"
          /\ Len(sent) < MaxChunks
          /\ \E c \in CustomChunks(Len(sent) + 1) :
                 cc' = [cc EXCEPT !.offer = c, !.offered = TRUE]
       \/ /\ cc.producer = "reader"
          /\ cc.pending # <<>>
          /\ cc' = [cc EXCEPT !.offer = Chunk(Head(cc.pending), NoDesc, 0, OK),
                              !.offered = TRUE, !.pending = Tail(cc.pending)]
    /\ UNCHANGED <<sqlInfoToResult, impl, callVars, err, wr, chunk, sent, released,
                   cancelled>>

\* the producer closes the channel
ProducerClose ==
    /\ UNCHANGED goroutines
    /\ pc \in {"recv", "write"}
    /\ cc.open /\ ~cc.closed /\ ~cc.offered
    /\ cc.producer = "reader" => cc.pending = <<>>
    /\ cc' = [cc EXCEPT !.closed = TRUE]
    /\ UNCHANGED <<sqlInfoToResult, impl, callVars, err, wr, chunk, sent, released,
                   cancelled>>

\* the client cancels the call
Cancel ==
    /\ UNCHANGED goroutines
    /\ pc \in {"recv", "write"}
    /\ ~cancelled
    /\ cancelled' = TRUE
    /\ UNCHANGED <<sqlInfoToResult, impl, callVars, err, wr, chunk, cc, sent, released>>

\* mutation: the return without the deferred wr.Close()
DoGetReturn_NoClose(e) ==
    /\ pc' = "done"
    /\ ret' = e
    /\ UNCHANGED wr

\* return from DoGet: the deferred wr.Close() runs
DoGetReturn(e) ==
    /\ pc' = "done"
    /\ ret' = e
    /\ wr' = [wr EXCEPT !.closed = @ + 1]

\* mutation: the loop goes on after a failed write
WriteFailed_Ignored(e) == FALSE

\* "if err = wr.WriteWithAppMetadata(...); err != nil" in the loop of DoGet
WriteFailed(e) == e # OK

\* mutation: the write runs beside the loop, which receives meanwhile
AtRangeReceive_WhileWriting == pc \in {"recv", "write"}

\* the goroutine of DoGet is at the receive of "for chunk := range cc": the
\* write of the chunk before has returned
AtRangeReceive == pc = "recv"

\* one iteration of "for chunk := range cc" up to the write: receive the chunk,
\* return when it carries an error, else set the descriptor of the writer
DoGetRecv ==
    /\ UNCHANGED goroutines
    /\ AtRangeReceive
    /\ cc.offered
    /\ chunk' = cc.offer
    /\ cc' = [cc EXCEPT !.offer = NoChunk, !.offered = FALSE]
    /\ sent' = Append(sent, cc.offer)
    /\ IF cc.offer.err # OK
       THEN DoGetReturn(err)
       ELSE /\ pc' = "write"
            /\ wr' = [wr EXCEPT !.fd = cc.offer.desc]
            /\ UNCHANGED ret
    /\ UNCHANGED <<sqlInfoToResult, impl, verb, request, invoked, result, wire, err,
                   released, cancelled>>

\* wr.WriteWithAppMetadata(chunk.Data, chunk.AppMetadata) and what follows it:
\* chunk.Data.Release() when the write succeeded, return err when it failed
DoGetWrite ==
    /\ UNCHANGED goroutines
    /\ pc = "write"
    /\ \E e \in {OK, SendError} :
         /\ err' = e
         /\ wire' = IF e = OK
                    THEN Append(wire, [kind |-> "FlightData", data |-> chunk.data,
                                       desc |-> wr.fd, meta |-> chunk.meta])
                    ELSE wire
         /\ IF WriteFailed(e)
            THEN /\ DoGetReturn(e)
                 /\ UNCHANGED released
            ELSE /\ released' = [released EXCEPT ![chunk.data.id] = @ + 1]
                 /\ pc' = "recv"
                 /\ UNCHANGED <<ret, wr>>
    /\ UNCHANGED <<sqlInfoToResult, impl, verb, request, invoked, result, chunk, cc,
                   sent, cancelled>>

\* the range over the channel ends because the channel is closed: return err
DoGetRangeEnd ==
    /\ UNCHANGED goroutines
    /\ pc = "recv"
    /\ cc.closed /\ ~cc.offered
    /\ DoGetReturn(err)
    /\ UNCHANGED <<sqlInfoToResult, impl, verb, request, invoked, result, wire, err,
                   chunk, cc, sent, released, cancelled>>

\* ------------------------------------------------------------------ DoPut
\* mutation: the record count is not copied into the result
MarshalUpdateResult_NoCount(recordCount) ==
    [message |-> "DoPutUpdateResult", recordCount |-> 0]

\* proto.Marshal of a pb.DoPutUpdateResult
MarshalUpdateResult(recordCount) ==
    [message |-> "DoPutUpdateResult", recordCount |-> recordCount]

\* flight.PutResult
PutResult(appMetadata) == [kind |-> "PutResult", appMetadata |-> appMetadata]

\* DoPutCommandStatementUpdate and DoPutPreparedStatementUpdate of the Server
\* behind the router: the record count and the error
UpdateMethod(m) ==
    IF impl = "base"
    THEN {[err |-> BaseServerUnimplemented(m), recordCount |-> 0]}
    ELSE {[err |-> OK, recordCount |-> c] : c \in 0..MaxRecordCount}
         \cup {[err |-> HandlerError, recordCount |-> 0]}

\* mutation: the PutResult is sent without the bytes
WriteMetadata_NoMetadata(calls) ==
    LET accepted == SelectSeq(calls, LAMBDA c : c.err = OK)
    IN  [i \in 1..Len(accepted) |-> PutResult(0)]

\* putMetadataWriter.WriteMetadata, for each call the method made in turn:
\* what is on the stream after them, one PutResult with the bytes of the call
\* for every call whose stream.Send succeeded
WriteMetadata(calls) ==
    LET accepted == SelectSeq(calls, LAMBDA c : c.err = OK)
    IN  [i \in 1..Len(accepted) |-> PutResult(accepted[i].appMetadata)]

\* DoPutPreparedStatementQuery of the Server behind the router: an
\* implementation calls WriteMetadata of the writer it is given n times, with
\* bytes of its choice, and returns; the transport accepts the first k sends
\* and fails the rest, and WriteMetadata returns the error of its send
DoPutPreparedStatementQuery ==
    IF impl = "base"
    THEN {[err |-> BaseServerUnimplemented("DoPutPreparedStatementQuery"),
           written |-> <<>>]}
    ELSE {[err |-> e,
           written |-> [i \in 1..nk[1] |->
                           [appMetadata |-> i,
                            err |-> IF i <= nk[2] THEN OK ELSE SendError]]] :
              e \in {OK, HandlerError},
              nk \in {p \in (0..MaxMetadataWrites) \X (0..MaxMetadataWrites) :
                          p[2] <= p[1]}}

\* mutation: the switch of DoPut takes the query command for the update command
DoPutSwitch_StatementQuery(cmd) ==
    CASE cmd = "CommandStatementUpdate"         -> "DoPutCommandStatementUpdate"
      [] cmd = "CommandStatementQuery"          -> "DoPutCommandStatementUpdate"
      [] cmd = "CommandPreparedStatementQuery"  -> "DoPutPreparedStatementQuery"
      [] cmd = "CommandPreparedStatementUpdate" -> "DoPutPreparedStatementUpdate"
      [] OTHER                                  -> NoMethod

\* the type switch of flightSqlServer.DoPut
DoPutSwitch(cmd) ==
    CASE cmd = "CommandStatementUpdate"         -> "DoPutCommandStatementUpdate"
      [] cmd = "CommandPreparedStatementQuery"  -> "DoPutPreparedStatementQuery"
      [] cmd = "CommandPreparedStatementUpdate" -> "DoPutPreparedStatementUpdate"
      [] OTHER                                  -> NoMethod

\* what the first message of the input stream gives flight.NewRecordReader:
\* an error, a message without a flight descriptor or one with a descriptor
FirstMessages == {"error", "nodescriptor", "descriptor"}

\* flightSqlServer.DoPut
DoPut ==
    /\ UNCHANGED goroutines
    /\ pc = "idle"
    /\ \E first \in FirstMessages, bytes \in Envelopes :
         LET req    == Request("", bytes, first, 0, [shape |-> ""])
             anycmd == ProtoUnmarshal(bytes)
             cmd    == UnmarshalNew(anycmd)
             m      == DoPutSwitch(cmd.msg.type)
         IN  /\ first # "descriptor" => bytes = Garbage
             /\ IF first = "error"
                THEN Complete("DoPut", req, <<>>,
                              Status("InvalidArgument", "failed to read input stream: "),
                              NoInfo, <<>>)
                ELSE IF first = "nodescriptor"
                THEN Complete("DoPut", req, <<>>, Panic, NoInfo, <<>>)
                ELSE IF ~anycmd.ok
                THEN Complete("DoPut", req, <<>>,
                              Status("InvalidArgument", "unable to parse command: "),
                              NoInfo, <<>>)
                ELSE IF ~cmd.ok
                THEN Complete("DoPut", req, <<>>,
                              Status("InvalidArgument",
                                     "could not unmarshal google.protobuf.Any: "),
                              NoInfo, <<>>)
                ELSE IF m = NoMethod
                THEN Complete("DoPut", req, <<>>,
                              Status("InvalidArgument", "the defined request is invalid"),
                              NoInfo, <<>>)
                ELSE IF m = "DoPutPreparedStatementQuery"
                THEN \E r \in DoPutPreparedStatementQuery :
                         Complete("DoPut", req,
                                  <<Returned(m, r.err,
                                             [NoReturn EXCEPT !.written = r.written])>>,
                                  r.err, NoInfo, WriteMetadata(r.written))
                ELSE \E r \in UpdateMethod(m) :
                         LET call == Returned(m, r.err,
                                         [NoReturn EXCEPT !.recordCount = r.recordCount])
                         IN
                         IF r.err # OK
                         THEN Complete("DoPut", req, <<call>>, r.err, NoInfo, <<>>)
                         ELSE \E send \in {OK, SendError} :
                                  Complete("DoPut", req, <<call>>, send, NoInfo,
                                           IF send = OK
                                           THEN <<PutResult(MarshalUpdateResult(r.recordCount))>>
                                           ELSE <<>>)
    /\ UNCHANGED <<sqlInfoToResult, impl>>

\* --------------------------------------------------------------- DoAction
CreatePreparedStatementActionType == "CreatePreparedStatement"
ClosePreparedStatementActionType  == "ClosePreparedStatement"
ActionTypes ==
    {CreatePreparedStatementActionType, ClosePreparedStatementActionType, "Unknown"}

Schemas == {1}
\* the handles an implementation gives its prepared statements
Handles == {171, 172}
\* flight.SerializeSchema
SerializeSchema(schema) == [ipcSchema |-> schema]
\* a bytes field that was not set
NoBytes == [ipcSchema |-> NoSchema]

\* CreatePreparedStatement of the Server behind the router
CreatePreparedStatement ==
    IF impl = "base"
    THEN {[err |-> BaseServerUnimplemented("CreatePreparedStatement"),
           output |-> NoOutput]}
    ELSE {[err |-> OK,
           output |-> [handle |-> h, datasetSchema |-> ds, parameterSchema |-> ps]] :
              h \in Handles, ds \in Schemas \cup {NoSchema},
              ps \in Schemas \cup {NoSchema}}
         \cup {[err |-> HandlerError, output |-> NoOutput]}

\* ClosePreparedStatement of the Server behind the router
ClosePreparedStatement ==
    IF impl = "base"
    THEN {BaseServerUnimplemented("ClosePreparedStatement")}
    ELSE {OK, HandlerError}

\* mutation: the parameter schema is set under the test of the dataset schema
CreateResult_DatasetTestTwice(output) ==
    [preparedStatementHandle |-> output.handle,
     datasetSchema |-> IF output.datasetSchema # NoSchema
                       THEN SerializeSchema(output.datasetSchema) ELSE NoBytes,
     parameterSchema |-> IF output.datasetSchema # NoSchema
                         THEN SerializeSchema(output.parameterSchema) ELSE NoBytes]

\* the pb.ActionCreatePreparedStatementResult DoAction fills in from the output
CreateResult(output) ==
    [preparedStatementHandle |-> output.handle,
     datasetSchema |-> IF output.datasetSchema # NoSchema
                       THEN SerializeSchema(output.datasetSchema) ELSE NoBytes,
     parameterSchema |-> IF output.parameterSchema # NoSchema
                         THEN SerializeSchema(output.parameterSchema) ELSE NoBytes]

\* anycmd.MarshalFrom(&result) followed by proto.Marshal(&anycmd)
MarshalAny(name, value) == [empty |-> FALSE, typeUrl |-> TypeUrl(name), value |-> value]
\* the body of an empty pb.Result
EmptyBody == [empty |-> TRUE, typeUrl |-> "", value |-> CreateResult(NoOutput)]

\* pb.Result
Result(body) == [kind |-> "Result", body |-> body]

\* mutation: the close branch returns nil without sending
ClosePreparedStatementReply_None == <<>>

\* what the close branch of DoAction sends after the method succeeded
ClosePreparedStatementReply == <<Result(EmptyBody)>>

\* flightSqlServer.DoAction
DoAction ==
    /\ UNCHANGED goroutines
    /\ pc = "idle"
    /\ \E type \in ActionTypes, body \in Envelopes :
         LET req    == Request(type, body, "", 0, [shape |-> ""])
             anycmd == ProtoUnmarshal(body)
             parseError ==
                 Complete("DoAction", req, <<>>,
                          Status("InvalidArgument", "unable to parse command: "),
                          NoInfo, <<>>)
             anyError ==
                 Complete("DoAction", req, <<>>,
                          Status("InvalidArgument",
                                 "unable to unmarshal google.protobuf.Any: "),
                          NoInfo, <<>>)
         IN  IF type = CreatePreparedStatementActionType
             THEN IF ~anycmd.ok THEN parseError
                  ELSE IF ~UnmarshalTo(anycmd, "ActionCreatePreparedStatementRequest").ok
                  THEN anyError
                  ELSE \E r \in CreatePreparedStatement :
                           LET call == Returned("CreatePreparedStatement", r.err,
                                           [NoReturn EXCEPT !.output = r.output])
                           IN
                           IF r.err # OK
                           THEN Complete("DoAction", req, <<call>>, r.err, NoInfo, <<>>)
                           ELSE \E send \in {OK, SendError} :
                                    Complete("DoAction", req, <<call>>, send, NoInfo,
                                             IF send = OK
                                             THEN <<Result(MarshalAny(
                                                      "ActionCreatePreparedStatementResult",
                                                      CreateResult(r.output)))>>
                                             ELSE <<>>)
             ELSE IF type = ClosePreparedStatementActionType
             THEN IF ~anycmd.ok THEN parseError
                  ELSE IF ~UnmarshalTo(anycmd, "ActionClosePreparedStatementRequest").ok
                  THEN anyError
                  ELSE \E e \in ClosePreparedStatement :
                           IF e # OK
                           THEN Complete("DoAction", req,
                                         <<Call("ClosePreparedStatement", e)>>,
                                         e, NoInfo, <<>>)
                           ELSE \E send \in {OK, SendError} :
                                    Complete("DoAction", req,
                                             <<Call("ClosePreparedStatement", e)>>,
                                             send, NoInfo,
                                             IF send = OK
                                             THEN ClosePreparedStatementReply
                                             ELSE <<>>)
             ELSE Complete("DoAction", req, <<>>,
                           Status("InvalidArgument", "the defined request is invalid."),
                           NoInfo, <<>>)
    /\ UNCHANGED <<sqlInfoToResult, impl>>

\* ------------------------------------------------------------ ListActions
\* flight.ActionType
ActionType(type) == [kind |-> "ActionType", type |-> type]

\* mutation: the close-prepared type is listed first
ListedActions_CloseFirst ==
    <<ClosePreparedStatementActionType, CreatePreparedStatementActionType>>

\* the slice actions of ListActions
ListedActions == <<CreatePreparedStatementActionType, ClosePreparedStatementActionType>>

\* flightSqlServer.ListActions: the loop sends the action types in turn and
\* returns the error of the first send that fails; n is the number of sends
\* the transport accepts
ListActions ==
    /\ UNCHANGED goroutines
    /\ pc = "idle"
    /\ \E n \in 0..Len(ListedActions) :
         Complete("ListActions", NoRequest, <<>>,
                  IF n < Len(ListedActions) THEN SendError ELSE OK, NoInfo,
                  [i \in 1..n |-> ActionType(ListedActions[i])])
    /\ UNCHANGED <<sqlInfoToResult, impl>>

\* ---------------------------------------------------------- specification
Next ==
    \/ RegisterSqlInfo
    \/ GetFlightInfo
    \/ DoGet
    \/ ProducerSend
    \/ ProducerClose
    \/ Cancel
    \/ DoGetRecv
    \/ DoGetWrite
    \/ DoGetRangeEnd
    \/ DoPut
    \/ DoAction
    \/ ListActions
    \/ Return

Spec == Init /\ [][Next]_vars

\* The goroutine of a DoGet call is scheduled: a write it has started ends,
\* a chunk a producer is sending is received, a closed channel is seen. The
\* client and the producer of the handler owe the call nothing.
FairSpec ==
    Spec /\ WF_vars(DoGetRecv) /\ WF_vars(DoGetWrite) /\ WF_vars(DoGetRangeEnd)

\* ------------------------------------------- concurrent calls on BaseServer
\* The server runs each call on a goroutine of its own, and RegisterSqlInfo
\* can be called from any goroutine. BaseServer has no mutex: a goroutine
\* starts an access to the map sqlInfoToResult whenever its code reaches one,
\* whatever the other goroutines are doing. A map access is not atomic; it is
\* modelled by its begin and its end.

\* the access another goroutine is in conflicts with an access of this kind:
\* both touch the same map and one of them writes
Conflicts(h, kind) ==
    /\ goroutines[h].access # "none"
    /\ kind = "write" \/ goroutines[h].access = "write"

\* the values concurrent calls register: two of the accepted types, so that
\* the value before a registration differs from the one after, and the
\* type that is not accepted
ConcurrentValues == [shape : {"string", "int64"} \cup InvalidShapes]

\* a goroutine starts a call of one of the three methods that use the map
GoCall ==
    /\ \E g \in Goroutines :
         /\ goroutines[g].at = "idle"
         /\ \/ \E id \in InfoIds, value \in ConcurrentValues :
                 goroutines' = [goroutines EXCEPT ![g] =
                     [NoGoroutine EXCEPT !.op = "RegisterSqlInfo", !.at = "call",
                                         !.id = id, !.value = value]]
            \/ goroutines' = [goroutines EXCEPT ![g] =
                     [NoGoroutine EXCEPT !.op = "GetFlightInfoSqlInfo", !.at = "call"]]
            \/ \E ids \in SeqsUpTo(InfoIds, MaxInfoLen) :
                 goroutines' = [goroutines EXCEPT ![g] =
                     [NoGoroutine EXCEPT !.op = "DoGetSqlInfo", !.at = "call",
                                         !.ids = ids, !.i = 1]]
    /\ UNCHANGED <<sqlInfoToResult, impl, callVars, streamVars>>

\* the steps of the three methods that end the call without a map access:
\* the default case of the type switch, the assignment to an entry of a nil
\* map (it panics before it writes), the end of the loop of DoGetSqlInfo
GoNoAccess ==
    /\ \E g \in Goroutines :
         LET G == goroutines[g] IN
         /\ G.at = "call"
         /\ \/ /\ G.op = "RegisterSqlInfo"
               /\ ~RegisterSqlInfoAccepts(G.value)
               /\ goroutines' = [goroutines EXCEPT ![g].at = "done",
                     ![g].ret = Status("Error", "invalid sql info type '" \o G.value.shape
                                          \o "' registered for id: " \o ToString(G.id))]
            \/ /\ G.op = "RegisterSqlInfo"
               /\ RegisterSqlInfoAccepts(G.value)
               /\ sqlInfoToResult.isNil
               /\ goroutines' = [goroutines EXCEPT ![g].at = "done", ![g].ret = Panic]
            \/ /\ G.op = "DoGetSqlInfo"
               /\ G.i > Len(G.ids)
               /\ goroutines' = [goroutines EXCEPT ![g].at = "done", ![g].ret = OK]
    /\ UNCHANGED <<sqlInfoToResult, impl, callVars, streamVars>>

\* a goroutine begins the map access its code has reached: the assignment
\* b.sqlInfoToResult[uint32(id)] = result of RegisterSqlInfo, the
\* len(b.sqlInfoToResult) of GetFlightInfoSqlInfo, the lookup
\* b.sqlInfoToResult[info] of DoGetSqlInfo. Nothing makes it wait.
GoAccessBegin ==
    /\ \E g \in Goroutines :
         LET G    == goroutines[g]
             kind == IF G.op = "RegisterSqlInfo" THEN "write" ELSE "read"
         IN  /\ G.at = "call"
             /\ G.op = "RegisterSqlInfo" =>
                    RegisterSqlInfoAccepts(G.value) /\ ~sqlInfoToResult.isNil
             /\ G.op = "DoGetSqlInfo" => G.i <= Len(G.ids)
             /\ goroutines' =
                  [h \in Goroutines |->
                      IF h = g
                      THEN [G EXCEPT !.at = "access", !.access = kind,
                                     !.raced = \E o \in Goroutines \ {g} :
                                                   Conflicts(o, kind)]
                      ELSE IF Conflicts(h, kind)
                      THEN [goroutines[h] EXCEPT !.raced = TRUE]
                      ELSE goroutines[h]]
    /\ UNCHANGED <<sqlInfoToResult, impl, callVars, streamVars>>

\* a map access ends. An access that ran together with a conflicting one is a
\* data race: the runtime may notice it and end the process with a fatal
\* error, or not notice it, and then a write may be lost and a read may see
\* the entry or miss it.
GoAccessEnd ==
    /\ \E g \in Goroutines :
         LET G == goroutines[g] IN
         /\ G.at = "access"
         /\ \/ /\ G.raced
               /\ goroutines' = [h \in Goroutines |->
                                    [goroutines[h] EXCEPT !.at = "fatal",
                                                          !.access = "none"]]
               /\ UNCHANGED sqlInfoToResult
            \/ /\ G.op = "RegisterSqlInfo"
               /\ \/ sqlInfoToResult' = MapPut(sqlInfoToResult, G.id, G.value)
                  \/ G.raced /\ UNCHANGED sqlInfoToResult
               /\ goroutines' = [goroutines EXCEPT ![g].at = "done",
                                    ![g].access = "none", ![g].ret = OK]
            \/ /\ G.op = "GetFlightInfoSqlInfo"
               /\ \E empty \in BOOLEAN :
                    /\ ~G.raced => empty = (MapLen(sqlInfoToResult) = 0)
                    /\ goroutines' = [goroutines EXCEPT ![g].at = "done",
                          ![g].access = "none",
                          ![g].ret = IF empty
                                     THEN Status("NotFound", "no sql information available")
                                     ELSE OK]
               /\ UNCHANGED sqlInfoToResult
            \/ /\ G.op = "DoGetSqlInfo"
               /\ \E ok \in BOOLEAN :
                    /\ ~G.raced => ok = MapHas(sqlInfoToResult, G.ids[G.i])
                    /\ goroutines' =
                         IF ok
                         THEN [goroutines EXCEPT ![g].at = "call", ![g].access = "none",
                                                 ![g].raced = FALSE, ![g].i = G.i + 1]
                         ELSE [goroutines EXCEPT ![g].at = "done", ![g].access = "none",
                                  ![g].ret = Status("NotFound",
                                      "no information for sql info number "
                                          \o ToString(G.ids[G.i]))]
               /\ UNCHANGED sqlInfoToResult
    /\ UNCHANGED <<impl, callVars, streamVars>>

\* the caller has the outcome of the call; the goroutine can run another
GoReturn ==
    /\ \E g \in Goroutines :
         /\ goroutines[g].at = "done"
         /\ goroutines' = [goroutines EXCEPT ![g] = NoGoroutine]
    /\ UNCHANGED <<sqlInfoToResult, impl, callVars, streamVars>>

ConcurrentInit == Init /\ impl = "base"

ConcurrentNext ==
    \/ GoCall
    \/ GoNoAccess
    \/ GoAccessBegin
    \/ GoAccessEnd
    \/ GoReturn

ConcurrentSpec == ConcurrentInit /\ [][ConcurrentNext]_vars

\* ------------------------------------------------------------ properties
Verbs == {"GetFlightInfo", "DoGet", "DoPut", "DoAction"}

\* the command the bytes of a request carry, "" when they carry none
CarriedCommand(bytes) ==
    IF bytes.wellFormed /\ bytes.valueOk /\ \E n \in Commands : bytes.typeUrl = TypeUrl(n)
    THEN CHOOSE n \in Commands : bytes.typeUrl = TypeUrl(n)
    ELSE ""

\* the record batches of the chunks whose send has completed, in send order
BatchesSent == SelectSeq(sent, LAMBDA c : c.data.id # 0)

\* C1: when DoGet has returned, the data of every chunk it received has been
\* released exactly once, whatever ended the call, and at no time has the
\* data of a chunk been released twice.
C1_EveryChunkReleasedOnce ==
    verb = "DoGet" =>
        /\ \A k \in 1..MaxChunks : released[k] <= 1
        /\ pc = "done" =>
               \A i \in 1..Len(BatchesSent) : released[BatchesSent[i].data.id] = 1

\* C2: when DoGet has received a chunk whose Err is not nil, it returns that
\* error, never nil.
C2_ChunkErrorReturned ==
    (verb = "DoGet" /\ pc = "done") =>
        \A i \in 1..Len(sent) : sent[i].err # OK => ret = sent[i].err

\* C3: a DoGet that is blocked receiving from the channel when the context is
\* cancelled eventually returns, whatever the producer does.
C3_CancelledDoGetReturns ==
    (verb = "DoGet" /\ pc = "recv" /\ cancelled) ~> (pc = "done")

\* C4: the record batches DoGet has written to the stream are at every moment
\* a prefix of the batches the producer has sent, in the same order, and when
\* DoGet has returned nil they are all of them.
C4_WrittenIsWhatWasSent ==
    verb = "DoGet" =>
        /\ Len(wire) <= Len(BatchesSent)
        /\ \A i \in 1..Len(wire) :
               wire[i].kind = "FlightData" /\ wire[i].data = BatchesSent[i].data
        /\ (pc = "done" /\ ret = OK) => Len(wire) = Len(BatchesSent)

C4_Witness ==
    verb = "DoGet" /\ pc = "done" /\ ret = OK /\ Len(wire) >= 2

\* C5: a DoGet call constructs at most one record writer and has closed it
\* exactly once when it has returned, not before; nothing is written after the
\* close; a call whose method returned an error constructs no writer and
\* writes nothing.
C5_WriterClosedOnce ==
    /\ [](verb = "DoGet" =>
            /\ wr.constructed <= 1
            /\ pc \in {"recv", "write"} => wr.constructed = 1 /\ wr.closed = 0
            /\ pc = "done" => wr.closed = wr.constructed
            /\ (invoked # <<>> /\ invoked[1].err # OK) =>
                   wr.constructed = 0 /\ wire = <<>>)
    /\ [][(verb = "DoGet" /\ wr.closed > 0 /\ verb' = "DoGet") => wire' = wire]_vars

C5_Witness ==
    verb = "DoGet" /\ pc = "done" /\ ret = SendError /\ wr.closed = 1 /\ Len(wire) >= 1

\* the methods of the Server that belong to each verb
C6_VerbMethods ==
    [ GetFlightInfo |->
        { "GetFlightInfoStatement", "GetFlightInfoPreparedStatement",
          "GetFlightInfoCatalogs", "GetFlightInfoSchemas", "GetFlightInfoTables",
          "GetFlightInfoTableTypes", "GetFlightInfoXdbcTypeInfo", "GetFlightInfoSqlInfo",
          "GetFlightInfoPrimaryKeys", "GetFlightInfoExportedKeys",
          "GetFlightInfoImportedKeys", "GetFlightInfoCrossReference" },
      DoGet |->
        { "DoGetStatement", "DoGetPreparedStatement", "DoGetCatalogs", "DoGetDBSchemas",
          "DoGetTables", "DoGetTableTypes", "DoGetXdbcTypeInfo", "DoGetSqlInfo",
          "DoGetPrimaryKeys", "DoGetExportedKeys", "DoGetImportedKeys",
          "DoGetCrossReference" },
      DoPut |->
        { "DoPutCommandStatementUpdate", "DoPutPreparedStatementQuery",
          "DoPutPreparedStatementUpdate" },
      DoAction |-> { "CreatePreparedStatement", "ClosePreparedStatement" } ]

\* the methods of the Server that match each command
C6_CommandMethods ==
    [ CommandStatementQuery |-> {"GetFlightInfoStatement"},
      TicketStatementQuery |-> {"DoGetStatement"},
      CommandPreparedStatementQuery |->
          {"GetFlightInfoPreparedStatement", "DoGetPreparedStatement",
           "DoPutPreparedStatementQuery"},
      CommandStatementUpdate |-> {"DoPutCommandStatementUpdate"},
      CommandPreparedStatementUpdate |-> {"DoPutPreparedStatementUpdate"},
      CommandGetCatalogs |-> {"GetFlightInfoCatalogs", "DoGetCatalogs"},
      CommandGetDbSchemas |-> {"GetFlightInfoSchemas", "DoGetDBSchemas"},
      CommandGetTables |-> {"GetFlightInfoTables", "DoGetTables"},
      CommandGetTableTypes |-> {"GetFlightInfoTableTypes", "DoGetTableTypes"},
      CommandGetPrimaryKeys |-> {"GetFlightInfoPrimaryKeys", "DoGetPrimaryKeys"},
      CommandGetExportedKeys |-> {"GetFlightInfoExportedKeys", "DoGetExportedKeys"},
      CommandGetImportedKeys |-> {"GetFlightInfoImportedKeys", "DoGetImportedKeys"},
      CommandGetCrossReference |-> {"GetFlightInfoCrossReference", "DoGetCrossReference"},
      CommandGetXdbcTypeInfo |-> {"GetFlightInfoXdbcTypeInfo", "DoGetXdbcTypeInfo"},
      CommandGetSqlInfo |-> {"GetFlightInfoSqlInfo", "DoGetSqlInfo"},
      ActionCreatePreparedStatementRequest |-> {"CreatePreparedStatement"},
      ActionClosePreparedStatementRequest |-> {"ClosePreparedStatement"} ]

\* for each command, a verb that takes it (and the action type, for DoAction)
C6_Verb ==
    [ c \in Commands |->
        CASE c = "TicketStatementQuery" -> "DoGet"
          [] c \in {"CommandStatementUpdate", "CommandPreparedStatementUpdate"} -> "DoPut"
          [] c \in {"ActionCreatePreparedStatementRequest",
                    "ActionClosePreparedStatementRequest"} -> "DoAction"
          [] OTHER -> "GetFlightInfo" ]

C6_ActionType ==
    [ c \in Commands |->
        CASE c = "ActionCreatePreparedStatementRequest" -> "CreatePreparedStatement"
          [] c = "ActionClosePreparedStatementRequest"  -> "ClosePreparedStatement"
          [] OTHER -> "" ]

\* C6: a call of a verb with a command of the closed set calls at most one
\* method of the Server, once, and that method is the one that matches the
\* command on that verb; a call that calls none returns an error; and every
\* command has a verb whose call with it does call the method.
C6_OneMethodPerCommand ==
    \A c \in Commands :
        (verb \in Verbs /\ CarriedCommand(request.cmd) = c) =>
            /\ Len(invoked) <= 1
            /\ invoked # <<>> =>
                   invoked[1].method \in C6_CommandMethods[c] \cap C6_VerbMethods[verb]
            /\ Cardinality(C6_CommandMethods[c] \cap C6_VerbMethods[verb]) <= 1
            /\ invoked = <<>> => pc = "done" /\ ret # OK
            /\ (verb = C6_Verb[c] /\ request.type = C6_ActionType[c]) => Len(invoked) = 1

C6_Witness ==
    /\ verb = "GetFlightInfo" /\ pc = "done"
    /\ CarriedCommand(request.cmd) = "CommandGetImportedKeys"
    /\ Len(invoked) = 1 /\ invoked[1].method = "GetFlightInfoImportedKeys"

\* C7: DoGet with a TicketStatementQuery calls DoGetStatement and nothing
\* else, GetFlightInfo with a CommandStatementQuery calls
\* GetFlightInfoStatement and nothing else, and each verb with the command of
\* the other calls no method and returns InvalidArgument.
C7_StatementNotConfused ==
    LET c == CarriedCommand(request.cmd)
        methods == [i \in 1..Len(invoked) |-> invoked[i].method]
    IN  /\ (verb = "DoGet" /\ c = "TicketStatementQuery") =>
               methods = <<"DoGetStatement">>
        /\ (verb = "GetFlightInfo" /\ c = "CommandStatementQuery") =>
               methods = <<"GetFlightInfoStatement">>
        /\ (verb = "DoGet" /\ c = "CommandStatementQuery") =>
               methods = <<>> /\ pc = "done" /\ ret.code = "InvalidArgument"
        /\ (verb = "GetFlightInfo" /\ c = "TicketStatementQuery") =>
               methods = <<>> /\ pc = "done" /\ ret.code = "InvalidArgument"

C7_Witness ==
    /\ verb = "DoGet" /\ pc = "done"
    /\ CarriedCommand(request.cmd) = "CommandStatementQuery"
    /\ ret.code = "InvalidArgument"

\* the commands each verb dispatches
C8_Table ==
    [ GetFlightInfo |->
        { "CommandStatementQuery", "CommandPreparedStatementQuery", "CommandGetCatalogs",
          "CommandGetDbSchemas", "CommandGetTables", "CommandGetTableTypes",
          "CommandGetXdbcTypeInfo", "CommandGetSqlInfo", "CommandGetPrimaryKeys",
          "CommandGetExportedKeys", "CommandGetImportedKeys", "CommandGetCrossReference" },
      DoGet |->
        { "TicketStatementQuery", "CommandPreparedStatementQuery", "CommandGetCatalogs",
          "CommandGetDbSchemas", "CommandGetTables", "CommandGetTableTypes",
          "CommandGetXdbcTypeInfo", "CommandGetSqlInfo", "CommandGetPrimaryKeys",
          "CommandGetExportedKeys", "CommandGetImportedKeys", "CommandGetCrossReference" },
      DoPut |->
        { "CommandStatementUpdate", "CommandPreparedStatementQuery",
          "CommandPreparedStatementUpdate" } ]

\* the request of the current call is one the verb has no case for: its
\* envelope does not decode, or decodes to something outside the verb's table
C8_NotDispatchable ==
    \/ /\ verb \in {"GetFlightInfo", "DoGet"}
       /\ CarriedCommand(request.cmd) \notin C8_Table[verb]
    \/ /\ verb = "DoPut" /\ request.first = "descriptor"
       /\ CarriedCommand(request.cmd) \notin C8_Table[verb]
    \/ /\ verb = "DoAction"
       /\ \/ request.type \notin {"CreatePreparedStatement", "ClosePreparedStatement"}
          \/ /\ request.type = "CreatePreparedStatement"
             /\ CarriedCommand(request.cmd) # "ActionCreatePreparedStatementRequest"
          \/ /\ request.type = "ClosePreparedStatement"
             /\ CarriedCommand(request.cmd) # "ActionClosePreparedStatementRequest"

\* C8: a call whose envelope does not decode, or whose command or action type
\* the verb has no case for, returns InvalidArgument, calls no method of the
\* Server and sends nothing on its stream.
C8_FailsClosed ==
    C8_NotDispatchable =>
        pc = "done" /\ ret.code = "InvalidArgument" /\ invoked = <<>> /\ wire = <<>>

C8_Witness ==
    /\ verb = "DoPut" /\ pc = "done" /\ request.first = "descriptor"
    /\ CarriedCommand(request.cmd) = "CommandStatementQuery"
    /\ ret.code = "InvalidArgument" /\ invoked = <<>> /\ wire = <<>>

\* C9: when the method a verb called returned an error, the verb has returned
\* exactly that error and, unless the method is the one that is handed the
\* metadata writer, nothing was sent on the stream.
C9_HandlerErrorReturned ==
    (verb \in Verbs /\ invoked # <<>> /\ invoked[1].err # OK) =>
        /\ pc = "done"
        /\ ret = invoked[1].err
        /\ invoked[1].method # "DoPutPreparedStatementQuery" => wire = <<>>

C9_Witness ==
    /\ verb = "DoGet" /\ pc = "done"
    /\ invoked = <<Call("DoGetTables", HandlerError)>>
    /\ ret = HandlerError /\ wire = <<>>

\* C10: on BaseServer alone, a call that reaches a method other than
\* GetFlightInfoSqlInfo and DoGetSqlInfo returns Unimplemented with the message
\* "<method> not implemented" and sends nothing; the two sql info methods
\* never return Unimplemented.
C10_BaseServerUnimplemented ==
    (impl = "base" /\ verb \in Verbs /\ invoked # <<>>) =>
        IF invoked[1].method \in {"GetFlightInfoSqlInfo", "DoGetSqlInfo"}
        THEN invoked[1].err.code # "Unimplemented" /\ ret.code # "Unimplemented"
        ELSE /\ pc = "done"
             /\ ret = Status("Unimplemented", invoked[1].method \o " not implemented")
             /\ wire = <<>>

C10_Witness ==
    /\ impl = "base" /\ verb = "GetFlightInfo" /\ pc = "done"
    /\ CarriedCommand(request.cmd) = "CommandGetCatalogs"
    /\ ret = Status("Unimplemented", "GetFlightInfoCatalogs not implemented")

\* the types a registered sql info value may have
PermittedShapes == {"string", "bool", "int64", "int32", "stringList", "int32ListMap"}

\* the ids with an entry in the registry
Registered == DOMAIN sqlInfoToResult.entries

\* the request is a GetSqlInfo command served by BaseServer under the verb
SqlInfoCall(v) ==
    /\ impl = "base" /\ verb = v
    /\ CarriedCommand(request.cmd) = "CommandGetSqlInfo"

\* the positions of the requested id list whose id is not registered
Unregistered == {i \in 1..Len(request.cmd.info) : request.cmd.info[i] \notin Registered}

\* C11: RegisterSqlInfo with a value whose type is not one of the six permitted
\* ones returns an error and leaves the registry exactly as it was: the same
\* ids, the same values, the same size, the id of the failed call included.
C11_InvalidTypeRejected ==
    [][(pc = "idle" /\ verb' = "RegisterSqlInfo"
            /\ request'.value.shape \notin PermittedShapes) =>
          /\ ret'.code = "Error"
          /\ sqlInfoToResult' = sqlInfoToResult]_vars

C11_Witness ==
    /\ verb = "RegisterSqlInfo" /\ pc = "done"
    /\ request.value.shape = "float64"
    /\ ret.code = "Error"
    /\ request.id \in Registered
    /\ sqlInfoToResult.entries[request.id].shape = "string"

\* the type code of the dense union of column 1 for each permitted type
C12_TypeCode ==
    [string |-> 0, bool |-> 1, int64 |-> 2, int32 |-> 3, stringList |-> 4,
     int32ListMap |-> 5]

\* C12: when every requested id is registered (duplicates allowed), the record
\* DoGetSqlInfo streams has one row per requested id, column 0 holds the ids in
\* request order, and the type code of row i is the code of the type
\* registered for the i-th id; the stream carries that one record and no
\* other, and the call then returns without error unless the write failed.
C12_SqlInfoRecord ==
    (SqlInfoCall("DoGet") /\ Unregistered = {}) =>
        LET ids == request.cmd.info IN
        /\ invoked = <<Call("DoGetSqlInfo", OK)>>
        /\ Len(wire) <= 1
        /\ \A k \in 1..Len(wire) :
             /\ wire[k].kind = "FlightData"
             /\ wire[k].data.names = ids
             /\ Len(wire[k].data.codes) = Len(ids)
             /\ \A i \in 1..Len(ids) :
                  wire[k].data.codes[i] = C12_TypeCode[sqlInfoToResult.entries[ids[i]].shape]
        /\ pc = "done" =>
             \/ ret = OK /\ Len(wire) = 1 /\ cc.closed
             \/ ret = SendError /\ wire = <<>>

C12_Witness ==
    /\ SqlInfoCall("DoGet") /\ pc = "done" /\ ret = OK
    /\ request.cmd.info = <<2, 2>>
    /\ Registered = {1, 2}
    /\ sqlInfoToResult.entries[2].shape = "int32ListMap"
    /\ Len(wire) = 1
    /\ wire[1].data.names = <<2, 2>>
    /\ wire[1].data.codes = <<5, 5>>

\* C13: a GetSqlInfo ticket whose id list holds an unregistered id makes DoGet
\* return NotFound naming the first unregistered id in request order, with no
\* channel, no producer, no writer and nothing written, however many
\* registered ids come before it.
C13_FirstUnregisteredNamed ==
    (SqlInfoCall("DoGet") /\ Unregistered # {}) =>
        LET first == CHOOSE i \in Unregistered : \A j \in Unregistered : i <= j IN
        /\ pc = "done"
        /\ ret = Status("NotFound", "no information for sql info number "
                                        \o ToString(request.cmd.info[first]))
        /\ ~cc.open /\ cc.producer = "none"
        /\ wr.constructed = 0
        /\ wire = <<>> /\ sent = <<>>

C13_Witness ==
    /\ SqlInfoCall("DoGet") /\ pc = "done"
    /\ Registered = {1}
    /\ request.cmd.info = <<1, 2>>
    /\ ret = Status("NotFound", "no information for sql info number 2")
    /\ wire = <<>>

\* C14: with no capability registered, GetFlightInfo with a GetSqlInfo command
\* returns NotFound and builds no FlightInfo whatever the id list, the empty
\* list included; with at least one registered it does not return NotFound.
C14_EmptyRegistryNotFound ==
    SqlInfoCall("GetFlightInfo") =>
        /\ pc = "done"
        /\ IF Registered = {}
           THEN ret.code = "NotFound" /\ result = NoInfo
           ELSE ret.code # "NotFound" /\ result # NoInfo

C14_Witness ==
    /\ SqlInfoCall("GetFlightInfo") /\ pc = "done"
    /\ Registered = {}
    /\ request.cmd.info = <<>>
    /\ ret = Status("NotFound", "no sql information available")
    /\ result = NoInfo

\* C15: with no capability registered, DoGet with a GetSqlInfo ticket returns
\* NotFound and streams no record whatever the id list, the empty list
\* included.
C15_EmptyRegistryDoGetNotFound ==
    (SqlInfoCall("DoGet") /\ Registered = {}) =>
        /\ pc = "done"
        /\ ret.code = "NotFound"
        /\ wire = <<>> /\ ~cc.open

\* C16: the FlightInfo GetFlightInfoSqlInfo builds from a descriptor has one
\* endpoint whose ticket is the command bytes of the descriptor, carries the
\* descriptor, and has both totals -1; DoGet decodes that ticket to a
\* GetSqlInfo command with the id list of the descriptor and dispatches it to
\* DoGetSqlInfo.
C16_TicketRoundTrip ==
    (SqlInfoCall("GetFlightInfo") /\ ret = OK) =>
        /\ invoked = <<Call("GetFlightInfoSqlInfo", OK)>>
        /\ Len(result.endpoint) = 1
        /\ result.endpoint[1].ticket = request.cmd
        /\ result.flightDescriptor = request.cmd
        /\ result.totalRecords = -1 /\ result.totalBytes = -1
        /\ LET anycmd == ProtoUnmarshal(result.endpoint[1].ticket)
               cmd    == UnmarshalNew(anycmd)
           IN  /\ anycmd.ok /\ cmd.ok
               /\ DoGetSwitch(cmd.msg.type) = "DoGetSqlInfo"
               /\ cmd.msg.info = request.cmd.info

C16_Witness ==
    /\ SqlInfoCall("GetFlightInfo") /\ pc = "done" /\ ret = OK
    /\ request.cmd.info = <<2, 1>>
    /\ result.endpoint = <<[ticket |-> request.cmd]>>
    /\ result.totalRecords = -1

\* C17: a DoPut carrying StatementUpdate or PreparedStatementUpdate reaches
\* DoPutCommandStatementUpdate or DoPutPreparedStatementUpdate respectively and
\* no other method; when the method returns a count without error, DoPut
\* sends one PutResult whose app metadata decodes to that count, after the
\* method has returned, and nothing when the method failed. (A send the
\* transport refuses puts nothing on the stream and its error is returned.)
C17_UpdateCountSent ==
    (verb = "DoPut" /\ request.first = "descriptor"
         /\ CarriedCommand(request.cmd)
                \in {"CommandStatementUpdate", "CommandPreparedStatementUpdate"}) =>
        /\ pc = "done"
        /\ Len(invoked) = 1
        /\ invoked[1].method =
               IF CarriedCommand(request.cmd) = "CommandStatementUpdate"
               THEN "DoPutCommandStatementUpdate"
               ELSE "DoPutPreparedStatementUpdate"
        /\ invoked[1].err # OK => wire = <<>>
        /\ invoked[1].err = OK =>
             \/ /\ ret = OK
                /\ Len(wire) = 1
                /\ wire[1].kind = "PutResult"
                /\ wire[1].appMetadata.message = "DoPutUpdateResult"
                /\ wire[1].appMetadata.recordCount = invoked[1].out.recordCount
             \/ ret = SendError /\ wire = <<>>

C17_Witness ==
    /\ verb = "DoPut" /\ pc = "done" /\ ret = OK
    /\ CarriedCommand(request.cmd) = "CommandPreparedStatementUpdate"
    /\ invoked[1].method = "DoPutPreparedStatementUpdate"
    /\ invoked[1].out.recordCount = 1
    /\ Len(wire) = 1
    /\ wire[1].appMetadata.recordCount = 1

\* C18: DoAction sends exactly one Result when it succeeds, the create result
\* wrapped in an envelope for create and an empty Result for close, none when
\* it fails for whatever reason, and never more than one.
C18_OneResult ==
    verb = "DoAction" =>
        /\ pc = "done"
        /\ Len(wire) <= 1
        /\ ret # OK => wire = <<>>
        /\ ret = OK =>
             /\ Len(wire) = 1
             /\ wire[1].kind = "Result"
             /\ request.type \in {"CreatePreparedStatement", "ClosePreparedStatement"}
             /\ request.type = "CreatePreparedStatement" =>
                  /\ ~wire[1].body.empty
                  /\ wire[1].body.typeUrl = TypeUrl("ActionCreatePreparedStatementResult")
             /\ request.type = "ClosePreparedStatement" => wire[1].body.empty

C18_Witness ==
    /\ verb = "DoAction" /\ pc = "done" /\ ret = OK
    /\ request.type = "ClosePreparedStatement"
    /\ Len(wire) = 1
    /\ wire[1].kind = "Result" /\ wire[1].body.empty

\* C19: in the reply to create, the handle is the handle the method returned,
\* the dataset schema is there exactly when the method returned one, and so
\* is the parameter schema, each independently of the other.
C19_CreateReplyFields ==
    (verb = "DoAction" /\ request.type = "CreatePreparedStatement" /\ wire # <<>>) =>
        LET out   == invoked[1].out.output
            reply == wire[1].body.value
        IN  /\ invoked[1].method = "CreatePreparedStatement"
            /\ reply.preparedStatementHandle = out.handle
            /\ IF out.datasetSchema = 0
               THEN reply.datasetSchema.ipcSchema = 0
               ELSE reply.datasetSchema.ipcSchema = out.datasetSchema
            /\ IF out.parameterSchema = 0
               THEN reply.parameterSchema.ipcSchema = 0
               ELSE reply.parameterSchema.ipcSchema = out.parameterSchema

C19_Witness ==
    /\ verb = "DoAction" /\ request.type = "CreatePreparedStatement"
    /\ pc = "done" /\ ret = OK /\ Len(wire) = 1
    /\ invoked[1].out.output.handle = 172
    /\ invoked[1].out.output.datasetSchema = 0
    /\ invoked[1].out.output.parameterSchema = 1
    /\ wire[1].body.value.preparedStatementHandle = 172
    /\ wire[1].body.value.datasetSchema.ipcSchema = 0
    /\ wire[1].body.value.parameterSchema.ipcSchema = 1

C21_RegistryFrame ==
    [][IF pc = "idle" /\ verb' = "RegisterSqlInfo" /\ ret' = OK
       THEN LET id  == request'.id
                old == sqlInfoToResult.entries
                new == sqlInfoToResult'.entries
            IN  /\ DOMAIN new = DOMAIN old \cup {id}
                /\ new[id] = request'.value
                /\ \A other \in DOMAIN old \ {id} : new[other] = old[other]
                /\ Cardinality(DOMAIN new) =
                       Cardinality(DOMAIN old) + IF id \in DOMAIN old THEN 0 ELSE 1
       ELSE sqlInfoToResult' = sqlInfoToResult]_vars

C21_Witness ==
    /\ verb = "RegisterSqlInfo" /\ pc = "done" /\ ret = OK
    /\ request.id = 1 /\ request.value.shape = "bool"
    /\ Registered = {1, 2}
    /\ sqlInfoToResult.entries[1].shape = "bool"
    /\ sqlInfoToResult.entries[2].shape = "stringList"

\* C22: ListActions sends the create-prepared type and then the close-prepared
\* type, each once and nothing else, and returns nil when every send
\* succeeds; when a send fails it returns the error of that send and sends
\* nothing after it.
C22_ListActions ==
    verb = "ListActions" =>
        LET listed == <<"CreatePreparedStatement", "ClosePreparedStatement">> IN
        /\ pc = "done"
        /\ invoked = <<>>
        /\ Len(wire) <= 2
        /\ \A i \in 1..Len(wire) :
               wire[i].kind = "ActionType" /\ wire[i].type = listed[i]
        /\ ret = OK <=> Len(wire) = 2
        /\ ret # OK => ret = SendError

C22_Witness ==
    /\ verb = "ListActions" /\ pc = "done" /\ ret = OK
    /\ Len(wire) = 2
    /\ wire[1].type = "CreatePreparedStatement"
    /\ wire[2].type = "ClosePreparedStatement"

\* the descriptor the chunks up to the k-th batch sent leave current when a
\* chunk without a descriptor changes nothing: the one of the last chunk
\* among them that carried one, none when none did
RECURSIVE CurrentDescriptor(_)
CurrentDescriptor(k) ==
    IF k = 0 THEN 0
    ELSE IF BatchesSent[k].desc # 0 THEN BatchesSent[k].desc
    ELSE CurrentDescriptor(k - 1)

\* C23: in DoGet the descriptor of a chunk becomes the current descriptor of
\* the writer and stays it for the batches that follow, until a later chunk
\* carries another; a chunk without a descriptor neither clears nor changes
\* it. So every batch is written under the descriptor of the last chunk, up
\* to its own, that carried one.
C23_DescriptorPersists ==
    verb = "DoGet" =>
        \A k \in 1..Len(wire) : wire[k].desc = CurrentDescriptor(k)

\* C24: the producer and DoGet move in lock step over the chunk channel: the
\* send of a chunk completes only when every batch sent before it has been
\* written to the stream and released, so at every moment at most one batch
\* has been received by DoGet and not yet written, and none while DoGet waits
\* at the receive.
C24_LockStep ==
    /\ [](verb = "DoGet" =>
            /\ Len(BatchesSent) - Len(wire) \in {0, 1}
            /\ pc = "recv" => Len(BatchesSent) = Len(wire))
    /\ [][Len(sent') = Len(sent) + 1 =>
            /\ Len(BatchesSent) = Len(wire)
            /\ \A k \in 1..Len(BatchesSent) : released[BatchesSent[k].data.id] = 1]_vars

C24_Witness ==
    /\ verb = "DoGet" /\ pc = "write"
    /\ Len(BatchesSent) = 2 /\ Len(wire) = 1
    /\ released[BatchesSent[1].data.id] = 1
    /\ released[BatchesSent[2].data.id] = 0
    /\ cc.offered

C27_RegisterSucceeds ==
    (verb = "RegisterSqlInfo" /\ request.value.shape \in PermittedShapes) =>
        /\ pc = "done"
        /\ ret = OK
        /\ request.id \in Registered
        /\ sqlInfoToResult.entries[request.id] = request.value

\* C28: a DoPut whose input stream gives no message, or a first message
\* without a flight descriptor, returns an error status to its caller, calls
\* no method and sends no reply; it does not dereference the descriptor it
\* does not have.
C28_NoDescriptorIsAnError ==
    (verb = "DoPut" /\ request.first \in {"error", "nodescriptor"}) =>
        /\ pc = "done"
        /\ ret.code \notin {"OK", "Panic"}
        /\ invoked = <<>>
        /\ wire = <<>>

====
